---- MODULE Spec2Model ----
(***************************************************************************)
(* Flight management system: the flight collection (FlightDBC over a       *)
(* document store) and the console front end (FlightManagementSystem).     *)
(*                                                                         *)
(* Datetimes are naturals (minutes on some axis).  A Python value that may *)
(* be None is a sequence of length 0 (None) or 1 (the value).              *)
(***************************************************************************)
EXTENDS Integers, Sequences, FiniteSets, TLC

VARIABLES
    db,       \* the Flight collection, in insertion order
    last,     \* the last operation: its arguments, the collection before it, what it printed/returned
    pc,       \* per concurrent client: "idle", or "loaded" between Flight.get and flight.save
    local,    \* per concurrent client: the Flight object it loaded, and its call's arguments
    running   \* the console loop is alive (FALSE after option 0 or an uncaught exception)

vars == <<db, last, pc, local, running>>

\* ---------------------------------------------------------------- bounds
MaxSeats == 2

\* ---------------------------------------------------------------- values
None == <<>>
Some(x) == <<x>>

AVAILABLE == "available"
BOOKED == "booked"
BookingStatus == {AVAILABLE, BOOKED}

Names == {"Alice", "Bob"}
Ids == {"ID1", "ID2"}
Passengers == Names \X Ids
FlightNumbers == {"AB123", "CD456"}
Airports == {"PEK", "SHA"}
DateTimes == {1, 2, 3}
\* console input for a time, "%Y-%m-%d %H:%M" or not, and for a seat count
TimeTexts == {"2024-05-01 08:00", "2024-05-01 09:00", "tomorrow"}
SeatCountTexts == {ToString(n) : n \in -1 .. MaxSeats} \cup {"two"}
UtcNow == {7}
SeatCounts == -1 .. MaxSeats
SeatInputs == {ToString(i) : i \in 1 .. MaxSeats} \cup {"01"}
\* the identifiers the store can assign, and one identifier that is never stored
FlightIds == {1, 2}
FlightIdInputs == FlightIds \cup {99}

\* ---------------------------------------------------------------- schema
Booking(seat_number, booking_status, passenger_name, passenger_id, booking_time) ==
    [seat_number |-> seat_number, booking_status |-> booking_status,
     passenger_name |-> passenger_name, passenger_id |-> passenger_id,
     booking_time |-> booking_time]

\* variant: the validator written with < lets equal times through
validate_arrival_time_raises_Strict(v, departure_time) == v < departure_time

\* Flight.validate_arrival_time: TRUE when the validator raises
validate_arrival_time_raises(v, departure_time) == v <= departure_time

\* the collection's documents by identifier
Flight_get(d, flight_id) ==
    LET hits == {i \in DOMAIN d : d[i].id = flight_id}
    IN  IF hits = {} THEN None ELSE Some(d[CHOOSE i \in hits : TRUE])

\* Document.save: insert a document without identifier, else replace the stored one
NewId(d) == Len(d) + 1

Flight_save(d, flight) ==
    LET hits == {i \in DOMAIN d : d[i].id = flight.id}
    IN  IF hits = {} THEN Append(d, flight)
        ELSE [i \in DOMAIN d |-> IF i \in hits THEN flight ELSE d[i]]

\* ---------------------------------------------------------------- FlightDBC.add_flight
\* variant: the seat number is the loop index i, not i + 1
NewBookings_ZeroBased(flight_size) ==
    [i \in 1 .. flight_size |-> Booking(ToString(i - 1), AVAILABLE, None, None, None)]

\* the bookings built by the loop of add_flight; seat_number i + 1 is coerced to str
NewBookings(flight_size) ==
    [i \in 1 .. flight_size |-> Booking(ToString(i), AVAILABLE, None, None, None)]

\* result: the collection after the call, what was printed or raised, the value returned
DBC_add_flight(d, flight_number, departure_time, origin, destination, estimated_arrival_time, flight_size) ==
    IF validate_arrival_time_raises(estimated_arrival_time, departure_time)
    THEN [db |-> d, out |-> "ValidationError", ret |-> None]
    ELSE LET flight == [id |-> NewId(d),
                        flight_number |-> flight_number,
                        departure_time |-> departure_time,
                        origin |-> origin,
                        destination |-> destination,
                        estimated_arrival_time |-> estimated_arrival_time,
                        seats_total |-> flight_size,
                        seats_available |-> flight_size,
                        bookings |-> NewBookings(flight_size)]
         IN  [db |-> Flight_save(d, flight), out |-> "saved", ret |-> Some(flight.id)]

\* ---------------------------------------------------------------- FlightDBC.book_flight
\* the first booking of the flight with the seat number (0: the loop ends without a match)
FindSeatNumber(bookings, seat_number) ==
    LET hits == {i \in DOMAIN bookings : bookings[i].seat_number = seat_number}
    IN  IF hits = {} THEN 0 ELSE CHOOSE i \in hits : \A j \in hits : i <= j

\* variant: "and" for "or": a cancellation is refused only when name and id both differ
IdentityMismatch_Both(booking, passenger_name, passenger_id) ==
    booking.passenger_id # Some(passenger_id) /\ booking.passenger_name # Some(passenger_name)

IdentityMismatch(booking, passenger_name, passenger_id) ==
    booking.passenger_id # Some(passenger_id) \/ booking.passenger_name # Some(passenger_name)

\* variant: a cancellation leaves the booking time in place
UpdatedBooking_KeepsTime(booking, passenger_name, passenger_id, status, now) ==
    [booking EXCEPT
        !.passenger_name = IF status = AVAILABLE THEN None ELSE Some(passenger_name),
        !.passenger_id = IF status = AVAILABLE THEN None ELSE Some(passenger_id),
        !.booking_status = status,
        !.booking_time = IF status = AVAILABLE THEN @ ELSE Some(now)]

UpdatedBooking(booking, passenger_name, passenger_id, status, now) ==
    [booking EXCEPT
        !.passenger_name = IF status = AVAILABLE THEN None ELSE Some(passenger_name),
        !.passenger_id = IF status = AVAILABLE THEN None ELSE Some(passenger_id),
        !.booking_status = status,
        !.booking_time = IF status = AVAILABLE THEN None ELSE Some(now)]

\* variants: the signs swapped; a cancellation that gives no seat back
SeatsDelta_Swapped(status) == IF status = BOOKED THEN 1 ELSE -1
SeatsDelta_BookOnly(status) == IF status = BOOKED THEN -1 ELSE 0

SeatsDelta(status) == IF status = BOOKED THEN -1 ELSE 1

\* variant: the identity check made before the check of the current status
BookOnFlight_IdentityFirst(flight, seat_number, passenger_name, passenger_id, status, now) ==
    LET i == FindSeatNumber(flight.bookings, seat_number)
    IN  IF i = 0 THEN [flight |-> flight, out |-> "bad_seat", save |-> FALSE]
        ELSE IF status = AVAILABLE
                /\ IdentityMismatch(flight.bookings[i], passenger_name, passenger_id)
        THEN [flight |-> flight, out |-> "identity_mismatch", save |-> FALSE]
        ELSE IF flight.bookings[i].booking_status = status
        THEN [flight |-> flight,
              out |-> IF status = BOOKED THEN "already_booked" ELSE "not_booked",
              save |-> FALSE]
        ELSE [flight |-> [flight EXCEPT
                            !.bookings[i] = UpdatedBooking(@, passenger_name, passenger_id,
                                                           status, now),
                            !.seats_available = @ + SeatsDelta(status)],
              out |-> IF status = AVAILABLE THEN "cancel_ok" ELSE "book_ok",
              save |-> TRUE]

\* the body of book_flight on a loaded Flight object: the object after it, the message
\* printed, and whether flight.save() is reached
BookOnFlight(flight, seat_number, passenger_name, passenger_id, status, now) ==
    LET i == FindSeatNumber(flight.bookings, seat_number)
    IN  IF i = 0 THEN [flight |-> flight, out |-> "bad_seat", save |-> FALSE]
        ELSE IF flight.bookings[i].booking_status = status
        THEN [flight |-> flight,
              out |-> IF status = BOOKED THEN "already_booked" ELSE "not_booked",
              save |-> FALSE]
        ELSE IF status = AVAILABLE
                /\ IdentityMismatch(flight.bookings[i], passenger_name, passenger_id)
        THEN [flight |-> flight, out |-> "identity_mismatch", save |-> FALSE]
        ELSE [flight |-> [flight EXCEPT
                            !.bookings[i] = UpdatedBooking(@, passenger_name, passenger_id,
                                                           status, now),
                            !.seats_available = @ + SeatsDelta(status)],
              out |-> IF status = AVAILABLE THEN "cancel_ok" ELSE "book_ok",
              save |-> TRUE]

DBC_book_flight(d, flight_id, seat_number, passenger_name, passenger_id, status, now) ==
    LET got == Flight_get(d, flight_id)
    IN  IF got = None THEN [db |-> d, out |-> "no_flight"]
        ELSE LET r == BookOnFlight(got[1], seat_number, passenger_name, passenger_id,
                                   status, now)
             IN  [db |-> IF r.save THEN Flight_save(d, r.flight) ELSE d, out |-> r.out]

\* ---------------------------------------------------------------- FlightDBC.get_flights
\* Python truth of an optional str (None and "" are false) and of an optional datetime
TruthyStr(x) == x # None /\ x # Some("")
TruthyTime(x) == x # None

EmptyQuery == [k \in {} |-> 0]
Eq(field, x) == field :> [op |-> "$eq", val |-> x]

\* the query dict get_flights builds: key -> condition
BuildQuery(flight_number, origin, destination, start_time, end_time) ==
    (IF TruthyStr(flight_number) THEN Eq("flight_number", flight_number[1]) ELSE EmptyQuery)
    @@ (IF TruthyStr(origin) THEN Eq("origin", origin[1]) ELSE EmptyQuery)
    @@ (IF TruthyStr(destination) THEN Eq("destination", destination[1]) ELSE EmptyQuery)
    @@ (IF TruthyTime(start_time)
        THEN "departure_time" :> [op |-> "$gte", val |-> start_time[1]] ELSE EmptyQuery)
    @@ (IF TruthyTime(end_time)
        THEN "departure_time__lt" :> [op |-> "$lt", val |-> end_time[1]] ELSE EmptyQuery)

\* the store's test of one condition on a field's value
Holds(v, cond) ==
    CASE cond.op = "$eq" -> v = cond.val
      [] cond.op = "$gte" -> v >= cond.val
      [] cond.op = "$lt" -> v < cond.val

\* a document matches when every key of the query is a field of it whose value passes;
\* a comparison on a field the document does not have matches nothing
Matches(doc, query) ==
    \A k \in DOMAIN query : k \in DOMAIN doc /\ Holds(doc[k], query[k])

Flight_find(d, query) == SelectSeq(d, LAMBDA doc : Matches(doc, query))

DBC_get_flights(d, flight_number, origin, destination, start_time, end_time) ==
    Flight_find(d, BuildQuery(flight_number, origin, destination, start_time, end_time))

\* ---------------------------------------------------------------- console, option 1
\* datetime.strptime(text, "%Y-%m-%d %H:%M"): None stands for ValueError
strptime(text) ==
    CASE text = "2024-05-01 08:00" -> Some(1)
      [] text = "2024-05-01 09:00" -> Some(2)
      [] text = "2024-05-01 10:00" -> Some(3)
      [] OTHER -> None

\* int(text): None stands for ValueError
int(text) ==
    LET hits == {n \in -9 .. 9 : ToString(n) = text}
    IN  IF hits = {} THEN None ELSE Some(CHOOSE n \in hits : TRUE)

FMS_add_flight(d, flight_number, departure_text, origin, destination, arrival_text, size_text) ==
    LET departure_time == strptime(departure_text)
        estimated_arrival_time == strptime(arrival_text)
        flight_size == int(size_text)
    IN  IF departure_time = None \/ estimated_arrival_time = None
        THEN [db |-> d, out |-> "time_format_error", ret |-> None]
        ELSE IF departure_time[1] >= estimated_arrival_time[1]
        THEN [db |-> d, out |-> "time_order_error", ret |-> None]
        ELSE IF flight_size = None
        THEN [db |-> d, out |-> "seat_count_error", ret |-> None]
        ELSE DBC_add_flight(d, flight_number, departure_time[1], origin, destination,
                            estimated_arrival_time[1], flight_size[1])

\* ---------------------------------------------------------------- console, options 2-4
\* re.sub(r'\D', '', text): the digits of the text
digits(text) ==
    CASE text = "-1" -> "1"
      [] text = "q" -> ""
      [] OTHER -> text

\* find_flights: [crash |-> an uncaught ValueError, flights |-> None or the list found]
FMS_find_flights(d, flight_number, start_text, end_text, origin, destination) ==
    LET start_time == IF start_text = "" THEN None ELSE strptime(start_text)
        end_time == IF end_text = "" THEN None ELSE strptime(end_text)
    IN  IF (start_text # "" /\ start_time = None) \/ (end_text # "" /\ end_time = None)
        THEN [crash |-> TRUE, flights |-> None]
        ELSE LET flights == DBC_get_flights(d, Some(flight_number), Some(origin),
                                            Some(destination), start_time, end_time)
             IN  [crash |-> FALSE,
                  flights |-> IF Len(flights) = 0 THEN None ELSE Some(flights)]

\* select_flight: [crash, out, id |-> None or the identifier selected]
FMS_select_flight(found, number_text) ==
    IF found = None THEN [crash |-> FALSE, out |-> "no_match", id |-> None]
    ELSE LET number == int(digits(number_text))
         IN  IF number = None THEN [crash |-> TRUE, out |-> "ValueError", id |-> None]
             ELSE IF number[1] = 0 THEN [crash |-> FALSE, out |-> "", id |-> None]
             ELSE IF ~(1 <= number[1] /\ number[1] <= Len(found[1]))
             THEN [crash |-> FALSE, out |-> "out_of_range", id |-> None]
             ELSE [crash |-> FALSE, out |-> "selected", id |-> Some(found[1][number[1]].id)]

\* book_flight of the console: [db, out, crash]
FMS_book_flight(d, status, flight_number, start_text, end_text, origin, destination, number_text, seat_number, passenger_name, passenger_id, now) ==
    LET found == FMS_find_flights(d, flight_number, start_text, end_text, origin, destination)
    IN  IF found.crash THEN [db |-> d, out |-> "ValueError", crash |-> TRUE]
        ELSE LET sel == FMS_select_flight(found.flights, number_text)
             IN  IF sel.id = None THEN [db |-> d, out |-> sel.out, crash |-> sel.crash]
                 ELSE LET r == DBC_book_flight(d, sel.id[1], seat_number, passenger_name,
                                               passenger_id, status, now)
                      IN  [db |-> r.db, out |-> r.out, crash |-> FALSE]

\* ---------------------------------------------------------------- state machine
NoArgs == [flight_id |-> 0, seat_number |-> "", passenger_name |-> "", passenger_id |-> "",
           status |-> "", departure_time |-> 0, estimated_arrival_time |-> 0,
           flight_size |-> 0, departure_text |-> "", arrival_text |-> "", size_text |-> "",
           flight_number |-> None, origin |-> None, destination |-> None,
           start_time |-> None, end_time |-> None]

\* no call is in progress: the caller is about to issue its next call
Idle == [op |-> "none", args |-> NoArgs, pre |-> <<>>, out |-> "", ret |-> None]

NoCall == [flight_id |-> 0, seat_number |-> "", passenger_name |-> "", passenger_id |-> "",
           status |-> "", flight |-> None, out |-> "", first |-> FALSE, second |-> FALSE]

Clients == {1, 2}
Other(c) == 3 - c
ClientPassenger(c) == IF c = 1 THEN <<"Alice", "ID1">> ELSE <<"Bob", "ID2">>

Init ==
    /\ db = <<>>
    /\ last = Idle
    /\ pc = [c \in Clients |-> "idle"]
    /\ local = [c \in Clients |-> NoCall]
    /\ running = TRUE

\* ---- direct calls of FlightDBC, one at a time
AddFlightOf(numbers, origins, destinations, times, sizes) ==
    /\ last = Idle
    /\ NewId(db) \in FlightIds
    /\ \E fn \in numbers, o \in origins, dst \in destinations,
          dep \in times, arr \in times, n \in sizes :
          LET r == DBC_add_flight(db, fn, dep, o, dst, arr, n)
          IN  /\ db' = r.db
              /\ last' = [op |-> "add_flight",
                          args |-> [NoArgs EXCEPT !.departure_time = dep,
                                                  !.estimated_arrival_time = arr,
                                                  !.flight_size = n],
                          pre |-> db, out |-> r.out, ret |-> r.ret]
    /\ UNCHANGED <<pc, local, running>>

AddFlight == AddFlightOf({"AB123"}, {"PEK"}, {"SHA"}, {1, 2}, SeatCounts)

BookFlight ==
    /\ last = Idle
    /\ \E fid \in FlightIdInputs, s \in SeatInputs, p \in Passengers,
          st \in BookingStatus, now \in UtcNow :
          LET r == DBC_book_flight(db, fid, s, p[1], p[2], st, now)
          IN  /\ db' = r.db
              /\ last' = [op |-> "book_flight",
                          args |-> [NoArgs EXCEPT !.flight_id = fid, !.seat_number = s,
                                                  !.passenger_name = p[1],
                                                  !.passenger_id = p[2], !.status = st],
                          pre |-> db, out |-> r.out, ret |-> None]
    /\ UNCHANGED <<pc, local, running>>

\* the call has returned; the caller goes on to its next call
Return ==
    /\ last # Idle
    /\ last' = Idle
    /\ UNCHANGED <<db, pc, local, running>>

\* ---- the console: one action per menu option of run()
ConsoleAddFlight ==
    /\ running /\ last = Idle
    /\ NewId(db) \in FlightIds
    /\ \E dep \in TimeTexts, arr \in TimeTexts, n \in SeatCountTexts :
          LET r == FMS_add_flight(db, "AB123", dep, "PEK", "SHA", arr, n)
          IN  /\ db' = r.db
              /\ last' = [op |-> "console_add_flight",
                          args |-> [NoArgs EXCEPT !.departure_text = dep,
                                                  !.arrival_text = arr,
                                                  !.size_text = n],
                          pre |-> db, out |-> r.out, ret |-> r.ret]
    /\ UNCHANGED <<pc, local, running>>

FilterNumberTexts == {"", "AB123", "ZZ999"}
FilterStartTexts == {"", "2024-05-01 08:00", "soon"}
FilterEndTexts == {"", "2024-05-01 10:00"}
NumberTexts == {"0", "1", "2", "-1", "q"}

ConsoleBook(status, op) ==
    /\ running /\ last = Idle
    /\ \E fn \in FilterNumberTexts, st \in FilterStartTexts, et \in FilterEndTexts,
          num \in NumberTexts, s \in SeatInputs, p \in Passengers, now \in UtcNow :
          LET r == FMS_book_flight(db, status, fn, st, et, "", "", num, s, p[1], p[2], now)
          IN  /\ db' = r.db
              /\ running' = ~r.crash
              /\ last' = [Idle EXCEPT !.op = op, !.pre = db, !.out = r.out]
    /\ UNCHANGED <<pc, local>>

ConsoleBookSeat == ConsoleBook(BOOKED, "console_book")
ConsoleCancelSeat == ConsoleBook(AVAILABLE, "console_cancel")

\* option 2: find, select and display a flight
ConsoleView ==
    /\ running /\ last = Idle
    /\ \E fn \in FilterNumberTexts, st \in FilterStartTexts, et \in FilterEndTexts,
          num \in NumberTexts :
          LET found == FMS_find_flights(db, fn, st, et, "", "")
              sel == IF found.crash THEN [crash |-> TRUE, out |-> "ValueError", id |-> None]
                     ELSE FMS_select_flight(found.flights, num)
          IN  /\ running' = ~sel.crash
              /\ last' = [Idle EXCEPT !.op = "console_view", !.pre = db, !.out = sel.out,
                                      !.ret = sel.id]
    /\ UNCHANGED <<db, pc, local>>

\* option 0, a number that is no option, and a choice without digits
ConsoleChoice ==
    /\ running /\ last = Idle
    /\ \E choice \in {"0", "9", "q"} :
          LET number == int(digits(choice))
          IN  /\ running' = (number # None /\ number # Some(0))
              /\ last' = [Idle EXCEPT !.op = "console_choice",
                                      !.out = IF number = None THEN "ValueError"
                                              ELSE IF number = Some(0) THEN "exit"
                                              ELSE "input_error"]
    /\ UNCHANGED <<db, pc, local>>

\* ---- queries
AddFlightAny == AddFlightOf(FlightNumbers, Airports, Airports, DateTimes, {0})

OptStrings(S) == {None, Some("")} \cup {Some(x) : x \in S}
OptTimes == {None} \cup {Some(t) : t \in DateTimes}

GetFlights ==
    /\ last = Idle
    /\ \E fn \in OptStrings(FlightNumbers), o \in OptStrings(Airports),
          dst \in OptStrings(Airports), st \in OptTimes, et \in OptTimes :
          last' = [op |-> "get_flights",
                   args |-> [NoArgs EXCEPT !.flight_number = fn, !.origin = o,
                                           !.destination = dst, !.start_time = st,
                                           !.end_time = et],
                   pre |-> db, out |-> "",
                   ret |-> DBC_get_flights(db, fn, o, dst, st, et)]
    /\ UNCHANGED <<db, pc, local, running>>

\* ---- two clients calling book_flight on one store; each await is a step
RaceAddFlight ==
    /\ db = <<>>
    /\ \E n \in 1 .. MaxSeats :
          db' = DBC_add_flight(db, "AB123", 1, "PEK", "SHA", 2, n).db
    /\ UNCHANGED <<last, pc, local, running>>

\* variant: book_flight works on the document as stored when it saves (an isolated update)
WorkingCopy_Reread(loaded, stored) == stored

\* the Flight object the rest of book_flight works on: the one Flight.get returned
WorkingCopy(loaded, stored) == loaded

\* flight = await Flight.get(flight_id)
Load(c) ==
    /\ pc[c] = "idle"
    /\ \E fid \in FlightIdInputs, s \in SeatInputs, st \in BookingStatus :
          LET got == Flight_get(db, fid)
              call == [NoCall EXCEPT !.flight_id = fid, !.seat_number = s,
                                     !.passenger_name = ClientPassenger(c)[1],
                                     !.passenger_id = ClientPassenger(c)[2],
                                     !.status = st, !.flight = got]
              \* what the other client's finished call recorded about this client's
              \* previous call says nothing about the new one
              others == [local[Other(c)] EXCEPT !.first = FALSE, !.second = FALSE]
          IN  IF got = None
              THEN /\ pc' = [pc EXCEPT ![c] = "done"]
                   /\ local' = [local EXCEPT ![c] = [call EXCEPT !.out = "no_flight"],
                                             ![Other(c)] = others]
              ELSE /\ pc' = [pc EXCEPT ![c] = "loaded"]
                   /\ local' = [local EXCEPT ![c] = call, ![Other(c)] = others]
    /\ UNCHANGED <<db, last, running>>

\* the loop over flight.bookings, up to await flight.save() and the message
Finish(c) ==
    /\ pc[c] = "loaded"
    /\ \E now \in UtcNow :
          LET stored == Flight_get(db, local[c].flight_id)[1]
              r == BookOnFlight(WorkingCopy(local[c].flight[1], stored),
                                local[c].seat_number, local[c].passenger_name,
                                local[c].passenger_id, local[c].status, now)
              o == Other(c)
              same == local[o].flight_id = local[c].flight_id
          IN  /\ db' = IF r.save THEN Flight_save(db, r.flight) ELSE db
              /\ local' = [local EXCEPT
                              ![c].out = r.out,
                              ![c].first = pc[o] = "loaded" /\ same,
                              ![c].second = pc[o] = "done" /\ same /\ local[o].first]
    /\ pc' = [pc EXCEPT ![c] = "done"]
    /\ UNCHANGED <<last, running>>

\* the client's call has returned; it goes on to its next call
NextCall(c) ==
    /\ pc[c] = "done"
    /\ pc' = [pc EXCEPT ![c] = "idle"]
    /\ local' = [local EXCEPT ![c] = NoCall]
    /\ UNCHANGED <<db, last, running>>

\* ---------------------------------------------------------------- specifications
Next == AddFlight \/ BookFlight \/ ConsoleAddFlight \/ Return

Spec == Init /\ [][Next]_vars

NextConsole ==
    \/ ConsoleAddFlight
    \/ ConsoleView
    \/ ConsoleBookSeat
    \/ ConsoleCancelSeat
    \/ ConsoleChoice
    \/ (running /\ Return)

SpecConsole == Init /\ [][NextConsole]_vars

NextQuery == AddFlightAny \/ GetFlights \/ Return

SpecQuery == Init /\ [][NextQuery]_vars

NextRace ==
    \/ RaceAddFlight
    \/ \E c \in Clients : Load(c) \/ Finish(c) \/ NextCall(c)

SpecRace == Init /\ [][NextRace]_vars

\* ---------------------------------------------------------------- properties of one call
\* the call just made is book_flight on seat k of the flight stored at position i
BookCallOn(i, k) ==
    /\ last.op = "book_flight"
    /\ i \in DOMAIN last.pre
    /\ last.pre[i].id = last.args.flight_id
    /\ k = FindSeatNumber(last.pre[i].bookings, last.args.seat_number)
    /\ k # 0

Positions == 1 .. Cardinality(FlightIds)
SeatPositions == 1 .. (MaxSeats + 1)

\* C1: booking an AVAILABLE seat persists the seat as BOOKED with the passenger's name and
\* id and a booking time, and seats_available one less than before.
C1_BookAvailableSeat ==
    \A i \in Positions, k \in SeatPositions :
        (BookCallOn(i, k) /\ last.args.status = BOOKED
            /\ last.pre[i].bookings[k].booking_status = AVAILABLE)
        => /\ Len(db) = Len(last.pre)
           /\ db[i].bookings[k].booking_status = BOOKED
           /\ db[i].bookings[k].passenger_name = Some(last.args.passenger_name)
           /\ db[i].bookings[k].passenger_id = Some(last.args.passenger_id)
           /\ db[i].bookings[k].booking_time # None
           /\ db[i].seats_available = last.pre[i].seats_available - 1

C1_Witness ==
    \E i \in Positions, k \in SeatPositions :
        /\ BookCallOn(i, k) /\ last.args.status = BOOKED
        /\ last.pre[i].bookings[k].booking_status = AVAILABLE
        /\ db[i].bookings[k].booking_status = BOOKED

\* C2: cancelling a BOOKED seat with exactly the stored name and id persists the seat as
\* AVAILABLE with name, id and booking time cleared, and seats_available one more.
C2_CancelBookedSeat ==
    \A i \in Positions, k \in SeatPositions :
        (BookCallOn(i, k) /\ last.args.status = AVAILABLE
            /\ last.pre[i].bookings[k].booking_status = BOOKED
            /\ last.pre[i].bookings[k].passenger_name = Some(last.args.passenger_name)
            /\ last.pre[i].bookings[k].passenger_id = Some(last.args.passenger_id))
        => /\ Len(db) = Len(last.pre)
           /\ db[i].bookings[k].booking_status = AVAILABLE
           /\ db[i].bookings[k].passenger_name = None
           /\ db[i].bookings[k].passenger_id = None
           /\ db[i].bookings[k].booking_time = None
           /\ db[i].seats_available = last.pre[i].seats_available + 1

C2_Witness ==
    \E i \in Positions, k \in SeatPositions :
        /\ BookCallOn(i, k) /\ last.args.status = AVAILABLE
        /\ last.pre[i].bookings[k].booking_status = BOOKED
        /\ last.pre[i].bookings[k].passenger_name = Some(last.args.passenger_name)
        /\ last.pre[i].bookings[k].passenger_id = Some(last.args.passenger_id)
        /\ db[i].bookings[k].booking_status = AVAILABLE

\* the call just made is a cancellation of seat k of flight i by exactly its passenger
CancelByBooker(i, k) ==
    /\ BookCallOn(i, k) /\ last.args.status = AVAILABLE
    /\ last.pre[i].bookings[k].passenger_name = Some(last.args.passenger_name)
    /\ last.pre[i].bookings[k].passenger_id = Some(last.args.passenger_id)

\* C3: a cancellation of a BOOKED seat with a name or an id other than the stored one
\* reports the identity mismatch and persists nothing; and whatever the call, a booked seat
\* keeps its passenger and booking time unless the call is a cancellation by exactly the
\* stored name and id.
C3_MismatchKeepsBooking ==
    /\ \A i \in Positions, k \in SeatPositions :
          (BookCallOn(i, k) /\ last.args.status = AVAILABLE
              /\ last.pre[i].bookings[k].booking_status = BOOKED
              /\ ~CancelByBooker(i, k))
          => (last.out = "identity_mismatch" /\ db = last.pre)
    /\ last.op # "none" =>
          \A i \in DOMAIN last.pre : \A k \in DOMAIN last.pre[i].bookings :
              (last.pre[i].bookings[k].booking_status = BOOKED /\ ~CancelByBooker(i, k))
              => (i \in DOMAIN db /\ db[i].bookings[k] = last.pre[i].bookings[k])

C3_Witness ==
    \E i \in Positions, k \in SeatPositions :
        /\ BookCallOn(i, k) /\ last.args.status = AVAILABLE
        /\ last.pre[i].bookings[k].booking_status = BOOKED
        /\ last.pre[i].bookings[k].passenger_name = Some(last.args.passenger_name)
        /\ last.pre[i].bookings[k].passenger_id # Some(last.args.passenger_id)
        /\ last.out = "identity_mismatch"

\* C4: requesting the status the seat already has reports the no-op error and persists
\* nothing, whatever name and id are supplied; for AVAILABLE on an AVAILABLE seat the
\* report is the no-op error, not the identity mismatch.
C4_NoOpTransition ==
    \A i \in Positions, k \in SeatPositions :
        (BookCallOn(i, k) /\ last.pre[i].bookings[k].booking_status = last.args.status)
        => /\ db = last.pre
           /\ last.out = (IF last.args.status = BOOKED THEN "already_booked" ELSE "not_booked")

C4_Witness ==
    \E i \in Positions, k \in SeatPositions :
        /\ BookCallOn(i, k) /\ last.args.status = AVAILABLE
        /\ last.pre[i].bookings[k].booking_status = AVAILABLE
        /\ last.out = "not_booked"
        /\ \E j \in DOMAIN db : \E m \in DOMAIN db[j].bookings :
              db[j].bookings[m].booking_status = BOOKED

\* C6: add_flight with N >= 0 seats and arrival later than departure appends one flight
\* with N bookings, all AVAILABLE without passenger or booking time, seat numbers "1".."N"
\* in order, seats_available = seats_total = N; it returns the new flight's identifier,
\* which no other flight has, and the flights stored before are unchanged.
C6_AddFlightSeats ==
    (last.op = "add_flight" /\ last.args.flight_size >= 0
        /\ last.args.estimated_arrival_time > last.args.departure_time)
    => LET n == last.args.flight_size
           f == db[Len(db)]
       IN  /\ Len(db) = Len(last.pre) + 1
           /\ SubSeq(db, 1, Len(last.pre)) = last.pre
           /\ Len(f.bookings) = n
           /\ \A k \in 1 .. n :
                 f.bookings[k] = Booking(ToString(k), AVAILABLE, None, None, None)
           /\ \A k, m \in 1 .. n : k # m => f.bookings[k].seat_number # f.bookings[m].seat_number
           /\ f.seats_available = n /\ f.seats_total = n
           /\ last.ret = Some(f.id)
           /\ \A i \in DOMAIN last.pre : last.pre[i].id # f.id

C6_Witness ==
    /\ last.op = "add_flight" /\ last.args.flight_size = MaxSeats
    /\ Len(db) = 2 /\ Len(last.pre) = 1
    /\ \E k \in DOMAIN db[1].bookings : db[1].bookings[k].booking_status = BOOKED

\* C7: creating a flight whose arrival is not later than its departure fails with the
\* validation error and persists nothing, from the console and from FlightDBC.add_flight.
C7_ArrivalNotLater ==
    /\ (last.op = "add_flight"
          /\ last.args.estimated_arrival_time <= last.args.departure_time)
       => (last.out = "ValidationError" /\ last.ret = None /\ db = last.pre)
    /\ (last.op = "console_add_flight"
          /\ strptime(last.args.departure_text) # None
          /\ strptime(last.args.arrival_text) # None
          /\ strptime(last.args.arrival_text)[1] <= strptime(last.args.departure_text)[1])
       => (last.out = "time_order_error" /\ last.ret = None /\ db = last.pre)

C7_Witness ==
    /\ last.op = "add_flight"
    /\ last.args.estimated_arrival_time = last.args.departure_time
    /\ last.out = "ValidationError"
    /\ Len(db) = 1

\* C9: for a flight created with N >= 0 seats, seats_available equals the number of
\* AVAILABLE bookings after every call, and seats_total, the number of bookings and the
\* seat numbers are those of its creation.
AvailableCount(flight) ==
    Cardinality({k \in DOMAIN flight.bookings : flight.bookings[k].booking_status = AVAILABLE})

C9_CounterInStep ==
    \A i \in DOMAIN db :
        db[i].seats_total >= 0
        => /\ db[i].seats_available = AvailableCount(db[i])
           /\ Len(db[i].bookings) = db[i].seats_total
           /\ \A k \in DOMAIN db[i].bookings : db[i].bookings[k].seat_number = ToString(k)
           /\ (last.op # "none" /\ i \in DOMAIN last.pre)
                 => db[i].seats_total = last.pre[i].seats_total

C9_Witness ==
    /\ last.op = "book_flight" /\ last.out = "cancel_ok"
    /\ \E i \in DOMAIN db :
          /\ db[i].seats_total = MaxSeats
          /\ AvailableCount(db[i]) = 1

\* ---------------------------------------------------------------- properties of queries
\* the flight passes every filter supplied (a filter that is None or "" is omitted)
Satisfies(f, a) ==
    /\ TruthyStr(a.flight_number) => f.flight_number = a.flight_number[1]
    /\ TruthyStr(a.origin) => f.origin = a.origin[1]
    /\ TruthyStr(a.destination) => f.destination = a.destination[1]
    /\ a.start_time # None => f.departure_time >= a.start_time[1]
    /\ a.end_time # None => f.departure_time < a.end_time[1]

\* C5: get_flights returns exactly the stored flights that satisfy all supplied filters:
\* equality on flight_number, origin and destination, departure_time >= start_time and
\* departure_time < end_time.
C5_GetFlightsExact ==
    last.op = "get_flights"
    => last.ret = SelectSeq(last.pre, LAMBDA f : Satisfies(f, last.args))

\* what get_flights does return: with end_time omitted, the flights satisfying the other
\* filters; with end_time supplied, nothing
GetFlightsAsBuilt ==
    last.op = "get_flights"
    => last.ret = IF last.args.end_time = None
                  THEN SelectSeq(last.pre, LAMBDA f : Satisfies(f, last.args))
                  ELSE <<>>

\* ---------------------------------------------------------------- properties of the console
\* C8: after any sequence of console options 1, 3 and 4, every stored flight has
\* 0 <= seats_available <= seats_total.
C8_SeatsWithinTotal ==
    \A i \in DOMAIN db :
        0 <= db[i].seats_available /\ db[i].seats_available <= db[i].seats_total

\* ---------------------------------------------------------------- properties of the race
\* clients a and b both called book_flight(BOOKED) on AVAILABLE seats of one flight with
\* different passengers, both loaded the flight before either saved, a saved first; no
\* third call saved between the two loads, so both loaded the same document
Raced(a, b) ==
    /\ a # b /\ pc[a] = "done" /\ pc[b] = "done"
    /\ local[a].first /\ local[b].second
    /\ local[a].flight = local[b].flight
    /\ local[a].status = BOOKED /\ local[b].status = BOOKED
    /\ ClientPassenger(a) # ClientPassenger(b)
    /\ LET ka == FindSeatNumber(local[a].flight[1].bookings, local[a].seat_number)
           kb == FindSeatNumber(local[b].flight[1].bookings, local[b].seat_number)
       IN  /\ ka # 0 /\ kb # 0
           /\ local[a].flight[1].bookings[ka].booking_status = AVAILABLE
           /\ local[b].flight[1].bookings[kb].booking_status = AVAILABLE

\* C10: when two book_flight(BOOKED) calls on one flight both load before either saves,
\* both report success; on the same seat the persisted seat holds only the passenger of
\* the later save and seats_available is one less, not two; on different seats the booking
\* saved first is not in the persisted flight.
C10_LostUpdate ==
    \A a, b \in Clients :
        Raced(a, b)
        => LET f == Flight_get(db, local[b].flight_id)[1]
               ka == FindSeatNumber(f.bookings, local[a].seat_number)
               kb == FindSeatNumber(f.bookings, local[b].seat_number)
           IN  /\ local[a].out = "book_ok" /\ local[b].out = "book_ok"
               /\ f.bookings[kb].booking_status = BOOKED
               /\ f.bookings[kb].passenger_name = Some(local[b].passenger_name)
               /\ f.bookings[kb].passenger_id = Some(local[b].passenger_id)
               /\ f.seats_available = local[a].flight[1].seats_available - 1
               /\ f.seats_available = local[b].flight[1].seats_available - 1
               /\ ka # kb => f.bookings[ka] = local[a].flight[1].bookings[ka]

C10_Witness ==
    \E a, b \in Clients :
        /\ Raced(a, b)
        /\ local[a].seat_number = local[b].seat_number
        /\ local[a].out = "book_ok" /\ local[b].out = "book_ok"

\* the race on two different seats happens too
C10_WitnessTwoSeats ==
    \E a, b \in Clients :
        /\ Raced(a, b)
        /\ local[a].seat_number # local[b].seat_number
        /\ local[a].out = "book_ok" /\ local[b].out = "book_ok"

====
